---------------------------- MODULE Spec2Model ----------------------------
(***************************************************************************)
(* B747-400F load planner: the planning pipeline of CorePlanningEngine     *)
(* (explode, forced groups, admission, top-up + bin packing, allocation,   *)
(* report) over the static aircraft map.                                   *)
(*                                                                         *)
(* Units.  The Python code computes in floats; the model computes in       *)
(* scaled integers:                                                        *)
(*   weights  in 1/10 kg            (Kg(6804) is 6804.0 kg)                *)
(*   volumes  in litres             (M3(19) is 19.0 m3)                    *)
(*   arms     in 1/10 inch          (5132 is 513.2 in)                     *)
(*   ULD len/wid in 1/10 inch       (2385 is 238.5 in)                     *)
(*   linear limits in 1/10 kg/inch  (385 is 38.5 kg/in)                    *)
(*   piece l, w in cm; piece h in 1/3 cm (Cm(163) is 163 cm), so that the  *)
(*   contour wedge height (w - 244)/2/1.5 + 5 is exact.                    *)
(* Shoring weights are floored to 1/10 kg.                                 *)
(***************************************************************************)
EXTENDS Integers, Sequences, FiniteSets, TLC

Kg(x) == x * 10
M3(x) == x * 1000
Cm(x) == x * 3

(***************************************************************************)
(* config.py                                                               *)
(***************************************************************************)
\* SystemConfig.PACKING_LOSS_FACTOR = 0.85, applied to a volume in litres.
PackingLoss(v) == (v * 85) \div 100

\* SystemConfig.FLOOR_LIMIT_KG_M2
FLOOR_LIMIT_KG_M2 == 976

DoorLimits ==
    [ NOSE_DOOR  |-> [max_h |-> 244, max_w |-> 269],
      SIDE_DOOR  |-> [max_h |-> 305, max_w |-> 340],
      LOWER_DOOR |-> [max_h |-> 167, max_w |-> 264] ]

SPECS ==
    [ M       |-> [contour |-> "Q6",    max_gross |-> Kg(6804),  tare |-> Kg(120), max_vol |-> M3(19), len |-> 1250, wid |-> 960],
      M_Q7    |-> [contour |-> "Q7",    max_gross |-> Kg(6804),  tare |-> Kg(120), max_vol |-> M3(24), len |-> 1250, wid |-> 960],
      A       |-> [contour |-> "Q6",    max_gross |-> Kg(6033),  tare |-> Kg(110), max_vol |-> M3(17), len |-> 1250, wid |-> 880],
      R       |-> [contour |-> "FLAT",  max_gross |-> Kg(11340), tare |-> Kg(400), max_vol |-> M3(27), len |-> 1960, wid |-> 960],
      G       |-> [contour |-> "FLAT",  max_gross |-> Kg(13608), tare |-> Kg(500), max_vol |-> M3(33), len |-> 2385, wid |-> 960],
      K       |-> [contour |-> "LD3",   max_gross |-> Kg(1587),  tare |-> Kg(90),  max_vol |-> 4300,   len |-> 615,  wid |-> 604],
      M_LOWER |-> [contour |-> "LOWER", max_gross |-> Kg(5035),  tare |-> Kg(120), max_vol |-> 11500,  len |-> 1250, wid |-> 960],
      A_LOWER |-> [contour |-> "LOWER", max_gross |-> Kg(4626),  tare |-> Kg(110), max_vol |-> 10500,  len |-> 1250, wid |-> 880] ]

ULDTypes == DOMAIN SPECS

CENTROIDS ==
    [ C |-> 5880,  D |-> 7140,  E |-> 8400,  F |-> 9660,  G |-> 10920,
      H |-> 12180, J |-> 13440, K |-> 14700, L |-> 15960, M |-> 17220,
      P |-> 18480, Q |-> 19390, R |-> 20290, S |-> 21550 ]

ROW_ZONES == <<"C", "D", "E", "F", "G", "H", "J", "K", "L", "M", "P", "Q", "R", "S">>

Pos(id, type, arm, conflicts) ==
    [id |-> id, type |-> type, arm |-> arm, conflicts |-> conflicts]

\* The three positions of row i, in the order initialize_maps inserts them.
RowPositions(i) ==
    LET z    == ROW_ZONES[i]
        arm  == CENTROIDS[z]
        next == IF i + 1 <= Len(ROW_ZONES)
                THEN LET nz == ROW_ZONES[i + 1]
                     IN  <<nz \o "L", nz \o "R", nz \o "C">>
                ELSE <<>>
    IN  << Pos(z \o "L", "Left",   arm, <<z \o "C">>),
           Pos(z \o "R", "Right",  arm, <<z \o "C">>),
           Pos(z \o "C", "Center", arm, <<z \o "L", z \o "R">> \o next) >>

RECURSIVE RowsFrom(_)
RowsFrom(i) == IF i > Len(ROW_ZONES) THEN <<>> ELSE RowPositions(i) \o RowsFrom(i + 1)

\* AircraftMap.MAIN_POSITIONS after initialize_maps, in dict insertion order.
MAIN_POSITIONS ==
    << Pos("A1", "Center", 3200,  <<>>),
       Pos("A2", "Center", 3790,  <<>>),
       Pos("B",  "Center", 4530,  <<>>),
       Pos("T",  "Center", 22960, <<>>) >> \o RowsFrom(1)

\* AircraftMap.LOWER_POSITIONS, in dict insertion order.
LOWER_POSITIONS ==
    << Pos("11P", "Center", 5132,  <<"11L", "11R">>),
       Pos("11L", "Left",   5104,  <<"11P">>),
       Pos("11R", "Right",  5104,  <<"11P">>),
       Pos("12P", "Center", 6102,  <<"12L", "12R", "13L", "13R">>),
       Pos("12L", "Left",   5716,  <<"12P">>),
       Pos("12R", "Right",  5716,  <<"12P">>),
       Pos("13L", "Left",   6329,  <<"12P">>),
       Pos("13R", "Right",  6329,  <<"12P">>),
       Pos("21P", "Center", 7447,  <<"21L", "21R", "22L", "22R">>),
       Pos("21L", "Left",   7139,  <<"21P">>),
       Pos("21R", "Right",  7139,  <<"21P">>),
       Pos("22L", "Left",   7744,  <<"21P">>),
       Pos("22R", "Right",  7744,  <<"21P">>),
       Pos("22P", "Center", 8417,  <<"23L", "23R">>),
       Pos("23L", "Left",   8349,  <<"22P">>),
       Pos("23R", "Right",  8349,  <<"22P">>),
       Pos("23P", "Center", 9387,  <<"24L", "24R", "25L", "25R">>),
       Pos("24L", "Left",   8954,  <<"23P">>),
       Pos("24R", "Right",  8954,  <<"23P">>),
       Pos("25L", "Left",   9564,  <<"23P">>),
       Pos("25R", "Right",  9564,  <<"23P">>),
       Pos("31P", "Center", 15346, <<"31L", "31R", "32L", "32R">>),
       Pos("31L", "Left",   15170, <<"31P">>),
       Pos("31R", "Right",  15170, <<"31P">>),
       Pos("32L", "Left",   15774, <<"31P">>),
       Pos("32R", "Right",  15774, <<"31P">>),
       Pos("32P", "Center", 16316, <<"33L", "33R">>),
       Pos("33L", "Left",   16379, <<"32P">>),
       Pos("33R", "Right",  16379, <<"32P">>),
       Pos("41P", "Center", 17286, <<"41L", "41R", "42L", "42R">>),
       Pos("41L", "Left",   16984, <<"41P">>),
       Pos("41R", "Right",  16984, <<"41P">>),
       Pos("42L", "Left",   17589, <<"41P">>),
       Pos("42R", "Right",  17589, <<"41P">>),
       Pos("42P", "Center", 18256, <<"43L", "43R">>),
       Pos("43L", "Left",   18206, <<"42P">>),
       Pos("43R", "Right",  18206, <<"42P">>),
       Pos("44L", "Left",   18824, <<>>),
       Pos("44R", "Right",  18824, <<>>),
       Pos("45L", "Left",   19442, <<>>),
       Pos("45R", "Right",  19442, <<>>) >>

\* AircraftMap.LINEAR_LIMITS: (start arm, end arm, limit).
LINEAR_LIMITS ==
    << <<0, 5250, 385>>, <<5250, 10000, 771>>, <<10000, 14800, 1315>>,
       <<14800, 19200, 771>>, <<19200, 25000, 163>> >>

\* AircraftMap.ZONE_LIMITS, in dict order.
ZONE_NAMES == <<"FWD_LOWER", "AFT_LOWER", "BULK", "WINGBOX">>

ZONE_LIMITS ==
    [ FWD_LOWER |-> [start |-> 3600,  end |-> 10000, limit |-> Kg(27669)],
      AFT_LOWER |-> [start |-> 14800, end |-> 19000, limit |-> Kg(26081)],
      BULK      |-> [start |-> 19000, end |-> 21600, limit |-> Kg(4408)],
      WINGBOX   |-> [start |-> 10000, end |-> 14800, limit |-> Kg(45000)] ]

\* AircraftMap.get_linear_limit
get_linear_limit(arm) ==
    IF \E i \in 1..Len(LINEAR_LIMITS) : LINEAR_LIMITS[i][1] <= arm /\ arm < LINEAR_LIMITS[i][2]
    THEN LET i == CHOOSE j \in 1..Len(LINEAR_LIMITS) :
                     /\ LINEAR_LIMITS[j][1] <= arm /\ arm < LINEAR_LIMITS[j][2]
                     /\ \A k \in 1..(j - 1) : ~(LINEAR_LIMITS[k][1] <= arm /\ arm < LINEAR_LIMITS[k][2])
         IN  LINEAR_LIMITS[i][3]
    ELSE 163

\* The map entry of a position id: MAIN_POSITIONS.get(pid) or LOWER_POSITIONS.get(pid).
AllPositions == MAIN_POSITIONS \o LOWER_POSITIONS

PositionIds == {AllPositions[i].id : i \in 1..Len(AllPositions)}

PosInfo(pid) == AllPositions[CHOOSE i \in 1..Len(AllPositions) : AllPositions[i].id = pid]

SeqToSet(s) == {s[i] : i \in 1..Len(s)}

(***************************************************************************)
(* models.py                                                               *)
(***************************************************************************)
\* CargoRequest.  dims is a reference into the heap of dims lists (0: the
\* empty list): _explode_cargos hands the request's own list object to every
\* piece clone (dims=c.dims), so a write through one clone is seen by all.
CargoRequest(id, destination, weight, volume, pieces, dims, shc, assigned_uld_type) ==
    [ id |-> id, destination |-> destination, weight |-> weight, volume |-> volume,
      pieces |-> pieces, dims |-> dims, shc |-> shc,
      assigned_uld_type |-> assigned_uld_type ]

\* The list a dims reference denotes.
DimsOf(heap, ref) == IF ref = 0 THEN <<>> ELSE heap[ref]

\* The first index with the greatest key in the sequence of keys (Python's
\* max(..., key=...) returns the first maximal element).
ArgMax(keys) ==
    CHOOSE i \in 1..Len(keys) :
        /\ \A j \in 1..Len(keys) : keys[j] <= keys[i]
        /\ \A j \in 1..(i - 1) : keys[j] < keys[i]

\* CargoRequest.max_height (1/3 cm)
max_height(heap, c) ==
    LET ds == DimsOf(heap, c.dims)
    IN  IF ds = <<>> THEN 0
        ELSE ds[ArgMax([k \in 1..Len(ds) |-> ds[k].h])].h

\* PackedULD as the dataclass builds it.  id is [kind, group, n]:
\* FRC-<group>-<n>, 3D-<n>, OPT-<n>, SPL-<n>, FLT-<n>.
ULDId(kind, group, n) == [kind |-> kind, group |-> group, n |-> n]

PackedULD(id, uld_type, contour, destination) ==
    [ id |-> id, uld_type |-> uld_type, contour |-> contour, destination |-> destination,
      items |-> <<>>, total_weight |-> 0, total_volume |-> 0, is_pure |-> FALSE,
      status |-> "OPEN", shc_codes |-> {}, assigned_position |-> "None",
      assigned_arm |-> 0, shoring_weight |-> 0, shoring_note |-> "" ]

\* PackedULD.gross_weight
gross_weight(u) ==
    LET tare == IF u.uld_type \in ULDTypes THEN SPECS[u.uld_type].tare ELSE 0
    IN  u.total_weight + tare + u.shoring_weight

\* uld.items.append(c); total_weight += ...; total_volume += ...; shc_codes.update(c.shc)
AddItem(u, c) ==
    [u EXCEPT !.items = Append(@, c),
              !.total_weight = @ + c.weight,
              !.total_volume = @ + c.volume,
              !.shc_codes = @ \cup SeqToSet(c.shc)]

(***************************************************************************)
(* logic/segregation.py                                                    *)
(***************************************************************************)
SHC_CONFLICTS ==
    [ RXB |-> {"GEN", "RCX", "RFL"},
      AVI |-> {"RRY", "ICE", "HUM"},
      HUM |-> {"EAT", "PES"},
      EAT |-> {"HUM", "RPB", "RIS"} ]

\* The codes CONFLICTS lists for s (none when s is no key).
ConflictsOf(s) == IF s \in DOMAIN SHC_CONFLICTS THEN SHC_CONFLICTS[s] ELSE {}

\* SegregationEngine.check_mix
check_mix(existing, new_shc) ==
    /\ ConflictsOf(new_shc) \cap existing = {}
    /\ \A e \in existing : new_shc \notin ConflictsOf(e)

\* all(SegregationEngine.check_mix(uld.shc_codes, s) for s in cargo.shc)
MixOk(u, c) == \A s \in SeqToSet(c.shc) : check_mix(u.shc_codes, s)

(***************************************************************************)
(* logic/gatekeeper.py                                                     *)
(***************************************************************************)
Min2(a, b) == IF a <= b THEN a ELSE b
Max2(a, b) == IF a >= b THEN a ELSE b

\* validate_door_entry that tries the lower deck door and the nose door only.
validate_door_entry_NoSideDoor(heap, c) ==
    LET ds == DimsOf(heap, c.dims)
    IN  IF ds = <<>> THEN [pass |-> TRUE, entry_point |-> "Loose"]
        ELSE
        LET vol(d)  == d.l * d.w * d.h
            piece   == ds[ArgMax([k \in 1..Len(ds) |-> vol(ds[k])])]
            a       == Cm(piece.l)
            b       == Cm(piece.w)
            h       == piece.h
            min_dim == Min2(a, Min2(b, h))
            max_dim == Max2(a, Max2(b, h))
            mid_dim == a + b + h - min_dim - max_dim
            fits(door) == mid_dim <= Cm(door.max_h) /\ min_dim <= Cm(door.max_w)
        IN  IF fits(DoorLimits.LOWER_DOOR) THEN [pass |-> TRUE, entry_point |-> "Lower"]
            ELSE IF fits(DoorLimits.NOSE_DOOR) THEN [pass |-> TRUE, entry_point |-> "Main-Nose"]
            ELSE [pass |-> FALSE, entry_point |-> "None"]

\* Gatekeeper.validate_door_entry; edges compared in 1/3 cm.
validate_door_entry(heap, c) ==
    LET ds == DimsOf(heap, c.dims)
    IN  IF ds = <<>> THEN [pass |-> TRUE, entry_point |-> "Loose"]
        ELSE
        LET vol(d)  == d.l * d.w * d.h
            piece   == ds[ArgMax([k \in 1..Len(ds) |-> vol(ds[k])])]
            a       == Cm(piece.l)
            b       == Cm(piece.w)
            h       == piece.h
            min_dim == Min2(a, Min2(b, h))
            max_dim == Max2(a, Max2(b, h))
            mid_dim == a + b + h - min_dim - max_dim
            fits(door) == mid_dim <= Cm(door.max_h) /\ min_dim <= Cm(door.max_w)
        IN  IF fits(DoorLimits.LOWER_DOOR) THEN [pass |-> TRUE, entry_point |-> "Lower"]
            ELSE IF fits(DoorLimits.SIDE_DOOR) THEN [pass |-> TRUE, entry_point |-> "Main-SCD"]
            ELSE IF fits(DoorLimits.NOSE_DOOR) THEN [pass |-> TRUE, entry_point |-> "Main-Nose"]
            ELSE [pass |-> FALSE, entry_point |-> "None"]

(***************************************************************************)
(* logic/shoring.py                                                        *)
(***************************************************************************)
\* ShoringEngine.recommend_type
recommend_type(heap, c) ==
    LET mh == max_height(heap, c)
    IN  IF 0 < mh /\ mh <= Cm(163)
        THEN IF c.weight < Kg(1500) /\ c.volume < M3(4)
             THEN [type |-> "K", floating |-> FALSE]
             ELSE [type |-> "M_LOWER", floating |-> FALSE]
        ELSE IF c.weight > SPECS["G"].max_gross THEN [type |-> "G", floating |-> TRUE]
        ELSE IF c.weight > SPECS["R"].max_gross THEN [type |-> "G", floating |-> FALSE]
        ELSE IF c.weight > SPECS["M"].max_gross THEN [type |-> "R", floating |-> FALSE]
        ELSE [type |-> "M", floating |-> FALSE]

\* full_base_m2 * 0.02 * SHORING_DENSITY, in 1/10 kg (floored): the 2 cm base
\* under the whole footprint len x wid (1/10 in each).
AreaShoringWeight(spec) == (((spec.len * spec.wid) \div 1000) * 774192) \div 1000000

\* ShoringEngine.calculate_shoring_needs; weight in 1/10 kg, height in 1/3 cm.
calculate_shoring_needs(heap, c, uld_type, arm) ==
    LET ds == DimsOf(heap, c.dims)
    IN  IF ds = <<>> THEN [needed |-> FALSE, weight |-> 0, height |-> 0]
        ELSE
        LET base(d) == d.l * d.w
            dim     == ds[ArgMax([k \in 1..Len(ds) |-> base(ds[k])])]
            c_len   == dim.l
            c_wid   == dim.w
            c_wgt   == c.weight \div c.pieces
            \* A. area load: c_wgt / (l*w/10000) > 976 (99999 when the area is 0)
            areaHit == IF c_len * c_wid = 0 THEN TRUE
                       ELSE c_wgt * 1000 > FLOOR_LIMIT_KG_M2 * c_len * c_wid
            aOn     == areaHit /\ uld_type \in ULDTypes
            aW      == IF aOn THEN AreaShoringWeight(SPECS[uld_type]) ELSE 0
            aH      == IF aOn THEN Cm(2) ELSE 0
            \* B. linear load: c_wgt / (c_len / 2.54) > limit
            limit   == get_linear_limit(arm)
            bOn     == c_wgt * 254 > limit * c_len * 100
            bW      == IF bOn THEN (c_wgt * 4572) \div (limit * 1000) ELSE 0
            bH      == IF bOn THEN Cm(10) ELSE 0
            \* C. contour overhang: "LOWER" in uld_type and c_wid > 244
            req_h   == (c_wid - 244) + Cm(5)
            cOn     == /\ uld_type \in {"M_LOWER", "A_LOWER"}
                       /\ c_wid > 244
                       /\ req_h > aH + bH
            cW      == IF cOn THEN (c_len * c_wid * (req_h - (aH + bH))) \div 500 ELSE 0
        IN  [ needed |-> aOn \/ bOn,
              weight |-> aW + bW + cW,
              height |-> IF cOn THEN req_h ELSE aH + bH ]

(***************************************************************************)
(* logic/structural.py                                                     *)
(***************************************************************************)
\* check_linear_load without the comparison against the linear limit.
check_linear_load_NoLimit(u, arm) ==
    u.uld_type \in ULDTypes

\* StructuralEngine.check_linear_load: gross_weight / len <= limit
check_linear_load(u, arm) ==
    /\ u.uld_type \in ULDTypes
    /\ gross_weight(u) * 10 <= get_linear_limit(arm) * SPECS[u.uld_type].len

\* Whether a ULD holds a position (assigned_position set and not "UNASSIGNED").
IsAssigned(u) == u.assigned_position \notin {"None", "UNASSIGNED"}

\* limit_info["start"] <= arm <= limit_info["end"] for a ULD holding a position
InZone(u, z) ==
    /\ IsAssigned(u)
    /\ ZONE_LIMITS[z].start <= u.assigned_arm
    /\ u.assigned_arm <= ZONE_LIMITS[z].end

\* zone_weights[z] summed over net weights (tare and shoring left out).
RECURSIVE zone_weight_Net(_, _)
zone_weight_Net(ulds, z) ==
    IF ulds = <<>> THEN 0
    ELSE (IF InZone(Head(ulds), z) THEN Head(ulds).total_weight ELSE 0)
         + zone_weight_Net(Tail(ulds), z)

\* zone_weights[z] of check_zone_limits
RECURSIVE zone_weight(_, _)
zone_weight(ulds, z) ==
    IF ulds = <<>> THEN 0
    ELSE (IF InZone(Head(ulds), z) THEN gross_weight(Head(ulds)) ELSE 0)
         + zone_weight(Tail(ulds), z)

\* StructuralEngine.check_zone_limits: the zones it warns about, in dict order.
check_zone_limits(ulds) ==
    SelectSeq(ZONE_NAMES, LAMBDA z : zone_weight(ulds, z) > ZONE_LIMITS[z].limit)

(***************************************************************************)
(* Python list helpers                                                     *)
(***************************************************************************)
\* Tuples of integers compared as Python compares tuples.
TupleLess(a, b) ==
    \E i \in 1..Len(a) : a[i] < b[i] /\ \A j \in 1..(i - 1) : a[j] = b[j]

\* sorted(range(n), key=keys): the indices 1..Len(keys) in stable ascending
\* key order (list.sort and sorted are stable, also with reverse=True): index
\* i comes after the indices with a smaller key and the earlier indices with
\* an equal key.
SortPerm(keys) ==
    LET before(i) == {j \in 1..Len(keys) :
                         TupleLess(keys[j], keys[i]) \/ (keys[j] = keys[i] /\ j < i)}
    IN  [p \in 1..Len(keys) |->
            CHOOSE i \in 1..Len(keys) : Cardinality(before(i)) = p - 1]

RECURSIVE SumOf(_)
SumOf(s) == IF s = <<>> THEN 0 ELSE Head(s) + SumOf(Tail(s))

\* str.startswith on ids, which are sequences of characters.
StartsWith(id, prefix) ==
    Len(prefix) <= Len(id) /\ SubSeq(id, 1, Len(prefix)) = prefix

(***************************************************************************)
(* planner/core_engine.py                                                  *)
(***************************************************************************)
\* DimensionalPacker.calc_max_pieces_per_uld; l, w in cm, h in 1/3 cm.
\* uld_L = len * 2.54 cm is (len/10 in) * 2.54, compared in 1/1000 cm.
calc_max_pieces_per_uld(l, w, h, uld_type) ==
    IF uld_type \notin ULDTypes THEN 0
    ELSE
    LET spec  == SPECS[uld_type]
        uld_L == spec.len * 254
        uld_W == spec.wid * 254
        uld_H == IF uld_type = "M_LOWER" THEN Cm(163)
                 ELSE IF spec.contour = "Q6" THEN Cm(244)
                 ELSE IF spec.contour = "Q7" THEN Cm(300)
                 ELSE Cm(160)
    IN  IF h > uld_H \/ l * 1000 > uld_L \/ w * 1000 > uld_W THEN 0
        ELSE
        LET base_pcs1 == (uld_L \div (l * 1000)) * (uld_W \div (w * 1000))
            base_pcs2 == (uld_L \div (w * 1000)) * (uld_W \div (l * 1000))
            tiers     == IF h > 0 THEN uld_H \div h ELSE 1
        IN  Max2(base_pcs1, base_pcs2) * tiers

\* The piece clones of request c (one list entry when pieces <= 1).
ExplodeOne(c) ==
    IF c.pieces > 1
    THEN [i \in 1..c.pieces |->
            CargoRequest(c.id \o <<"-", ToString(i)>>, c.destination,
                         c.weight \div c.pieces, c.volume \div c.pieces,
                         1, c.dims, c.shc, c.assigned_uld_type)]
    ELSE <<c>>

\* CorePlanningEngine._explode_cargos
RECURSIVE _explode_cargos(_)
_explode_cargos(cargos) ==
    IF cargos = <<>> THEN <<>>
    ELSE ExplodeOne(Head(cargos)) \o _explode_cargos(Tail(cargos))

\* any(c.id.startswith(gid) for gid in group.cargo_ids)
InGroup(c, group) == \E k \in 1..Len(group.cargo_ids) : StartsWith(c.id, group.cargo_ids[k])

\* The fit test of a group ULD that takes a cargo only while the ULD is empty.
ForcedFits_EmptyOnly(u, cargo, max_net_wgt, eff_vol) ==
    /\ u.items = <<>>
    /\ u.total_weight + cargo.weight <= max_net_wgt
    /\ u.total_volume + cargo.volume <= eff_vol
    /\ MixOk(u, cargo)

\* First-fit of the sorted group cargos into the group's ULDs:
\* st = [ulds, leftovers].
ForcedFits(u, cargo, max_net_wgt, eff_vol) ==
    /\ u.total_weight + cargo.weight <= max_net_wgt
    /\ u.total_volume + cargo.volume <= eff_vol
    /\ MixOk(u, cargo)

RECURSIVE ForcedFill(_, _, _, _)
ForcedFill(st, cargos, max_net_wgt, eff_vol) ==
    IF cargos = <<>> THEN st
    ELSE
    LET cargo == Head(cargos)
        fit   == {k \in 1..Len(st.ulds) : ForcedFits(st.ulds[k], cargo, max_net_wgt, eff_vol)}
        next  == IF fit = {}
                 THEN [st EXCEPT !.leftovers = Append(@, cargo)]
                 ELSE LET k == CHOOSE m \in fit : \A n \in fit : m <= n
                      IN  [st EXCEPT !.ulds[k] = AddItem(@, cargo)]
    IN  ForcedFill(next, Tail(cargos), max_net_wgt, eff_vol)

\* The group ULDs with items, left as they were filled (not closed).
CloseGroupULDs_LeftOpen(ulds) ==
    SelectSeq(ulds, LAMBDA u : u.items # <<>>)

\* The group ULDs with items, closed and marked pure.
CloseGroupULDs(ulds) ==
    LET used == SelectSeq(ulds, LAMBDA u : u.items # <<>>)
    IN  [k \in 1..Len(used) |-> [used[k] EXCEPT !.status = "CLOSED", !.is_pure = TRUE]]

\* CorePlanningEngine._pack_forced_group on eng = [packed_ulds, action_required].
_pack_forced_group(eng, group, cargos) ==
    IF group.target_uld_type \notin ULDTypes THEN eng
    ELSE
    LET spec        == SPECS[group.target_uld_type]
        eff_vol     == PackingLoss(spec.max_vol)
        max_net_wgt == spec.max_gross - spec.tare
        group_ulds  == [i \in 1..group.max_uld_count |->
                          PackedULD(ULDId("FRC", group.group_id, i), group.target_uld_type,
                                    spec.contour, cargos[1].destination)]
        perm        == SortPerm([k \in 1..Len(cargos) |-> <<0 - cargos[k].weight, 0 - cargos[k].volume>>])
        sorted      == [k \in 1..Len(cargos) |-> cargos[perm[k]]]
        st          == ForcedFill([ulds |-> group_ulds, leftovers |-> <<>>], sorted,
                                  max_net_wgt, eff_vol)
    IN  [ packed_ulds     |-> eng.packed_ulds \o CloseGroupULDs(st.ulds),
          action_required |-> IF st.leftovers = <<>> THEN eng.action_required
                              ELSE Append(eng.action_required,
                                          [group_id |-> group.group_id,
                                           remaining_cargos |-> st.leftovers]) ]

\* Phase 0 of plan_flight: st = [packed_ulds, action_required, processed_ids].
RECURSIVE Phase0Groups(_, _, _)
Phase0Groups(st, groups, exploded) ==
    IF groups = <<>> THEN st
    ELSE
    LET group        == Head(groups)
        group_cargos == SelectSeq(exploded, LAMBDA c : InGroup(c, group))
        packed       == _pack_forced_group([packed_ulds |-> st.packed_ulds,
                                            action_required |-> st.action_required],
                                           group, group_cargos)
        next         == IF group_cargos = <<>> THEN st
                        ELSE [ packed_ulds     |-> packed.packed_ulds,
                               action_required |-> packed.action_required,
                               processed_ids   |-> st.processed_ids \cup
                                                   {group_cargos[k].id : k \in 1..Len(group_cargos)} ]
    IN  Phase0Groups(next, Tail(groups), exploded)

\* The while loop of _pack_3d_cargo: st = [packed_ulds, rejected_cargos].
RECURSIVE Pack3DLoop(_, _, _, _, _)
Pack3DLoop(st, cargo, suggested_type, max_pcs_per_uld, pcs_left) ==
    IF pcs_left <= 0 THEN st
    ELSE
    LET spec          == SPECS[suggested_type]
        per_pc_weight == cargo.weight \div cargo.pieces
        per_pc_vol    == cargo.volume \div cargo.pieces
        max_by_weight == (spec.max_gross - spec.tare) \div per_pc_weight
    IN  IF max_by_weight <= 0
        THEN [st EXCEPT !.rejected_cargos =
                  Append(@, [id |-> cargo.id \o <<"-rem">>, reason |-> "Single piece too heavy"])]
        ELSE
        LET pcs_this_uld == Min2(pcs_left, Min2(max_pcs_per_uld, max_by_weight))
            chunk_cargo  == CargoRequest(cargo.id \o <<" (", ToString(pcs_this_uld), "p)">>,
                                         cargo.destination, per_pc_weight * pcs_this_uld,
                                         per_pc_vol * pcs_this_uld, pcs_this_uld,
                                         cargo.dims, cargo.shc, "")
            filled       == AddItem(PackedULD(ULDId("3D", "", Len(st.packed_ulds) + 1),
                                              suggested_type, spec.contour, cargo.destination),
                                    chunk_cargo)
            new_uld      == [filled EXCEPT !.status =
                                IF (filled.total_weight + spec.tare) * 100 >= spec.max_gross * 95
                                THEN "CLOSED" ELSE "OPEN"]
        IN  Pack3DLoop([st EXCEPT !.packed_ulds = Append(@, new_uld)], cargo,
                       suggested_type, max_pcs_per_uld, pcs_left - pcs_this_uld)

\* CorePlanningEngine._pack_3d_cargo on st = [packed_ulds, rejected_cargos].
_pack_3d_cargo(st, heap, cargo, suggested_type) ==
    LET dim == DimsOf(heap, cargo.dims)[1]
        max_pcs_per_uld == calc_max_pieces_per_uld(dim.l, dim.w, dim.h, suggested_type)
    IN  IF max_pcs_per_uld <= 0
        THEN [st EXCEPT !.rejected_cargos =
                  Append(@, [id |-> cargo.id, reason |-> "Dims cannot fit"])]
        ELSE Pack3DLoop(st, cargo, suggested_type, max_pcs_per_uld, cargo.pieces)

\* The test of _heuristic_pack without the status test.
HeuristicFits_AnyStatus(u, cargo, target_type) ==
    /\ u.uld_type = target_type
    /\ u.destination = cargo.destination
    /\ MixOk(u, cargo)
    /\ gross_weight(u) + cargo.weight <= SPECS[target_type].max_gross

\* The test under which _heuristic_pack adds cargo to an existing ULD.
HeuristicFits(u, cargo, target_type) ==
    /\ u.uld_type = target_type
    /\ u.status = "OPEN"
    /\ u.destination = cargo.destination
    /\ MixOk(u, cargo)
    /\ gross_weight(u) + cargo.weight <= SPECS[target_type].max_gross

\* CorePlanningEngine._heuristic_pack: the packed_ulds list after the call.
_heuristic_pack(ulds, heap, cargo, is_floating) ==
    LET rec         == recommend_type(heap, cargo)
        target_type == IF cargo.assigned_uld_type # "" THEN cargo.assigned_uld_type ELSE rec.type
        fit         == IF is_floating THEN {}
                       ELSE {k \in 1..Len(ulds) : HeuristicFits(ulds[k], cargo, target_type)}
    IN  IF fit # {}
        THEN LET k == CHOOSE m \in fit : \A n \in fit : m <= n
             IN  [ulds EXCEPT ![k] = AddItem(@, cargo)]
        ELSE
        LET new_id  == ULDId(IF is_floating THEN "FLT" ELSE "SPL", "", Len(ulds) + 1)
            fresh   == PackedULD(new_id, target_type, SPECS[target_type].contour, cargo.destination)
            new_uld == IF is_floating
                       THEN [fresh EXCEPT !.status = "CLOSED", !.shoring_note = "FLOATING LOAD"]
                       ELSE fresh
        IN  Append(ulds, AddItem(new_uld, cargo))

\* One iteration of the Phase 1 loop of plan_flight for cargo c0:
\* st = [packed_ulds, rejected_cargos, std_cargos, heap].
PreProcessOne(st, c0) ==
    LET door_check == validate_door_entry(st.heap, c0)
    IN  IF ~door_check.pass
        THEN [st EXCEPT !.rejected_cargos = Append(@, [id |-> c0.id, reason |-> "exceed all doors"])]
        ELSE
        LET rec       == recommend_type(st.heap, c0)
            shore_res == calculate_shoring_needs(st.heap, c0, rec.type, 3200)
            \* c.weight += shore_res["weight"]
            c         == IF shore_res.needed
                         THEN [c0 EXCEPT !.weight = @ + shore_res.weight]
                         ELSE c0
            \* if c.dims: c.dims[0]['h'] += shore_res["height"]
            heap      == IF shore_res.needed /\ DimsOf(st.heap, c0.dims) # <<>>
                         THEN [st.heap EXCEPT ![c0.dims][1].h = @ + shore_res.height]
                         ELSE st.heap
            is_special == \/ c.assigned_uld_type # ""
                          \/ rec.type \notin {"M", "M_LOWER", "K"}
                          \/ c.shc # <<>>
                          \/ shore_res.needed
                          \/ rec.floating
        IN  IF is_special
            THEN [st EXCEPT !.heap = heap,
                            !.packed_ulds = _heuristic_pack(st.packed_ulds, heap, c, rec.floating)]
            ELSE IF DimsOf(heap, c.dims) # <<>>
            THEN LET r == _pack_3d_cargo([packed_ulds |-> st.packed_ulds,
                                          rejected_cargos |-> st.rejected_cargos],
                                         heap, c, rec.type)
                 IN  [st EXCEPT !.heap = heap,
                                !.packed_ulds = r.packed_ulds,
                                !.rejected_cargos = r.rejected_cargos]
            ELSE [st EXCEPT !.heap = heap, !.std_cargos = Append(@, c)]

\* for c in remaining: ... (Phase 1)
RECURSIVE PreProcess(_, _)
PreProcess(st, remaining) ==
    IF remaining = <<>> THEN st
    ELSE PreProcess(PreProcessOne(st, Head(remaining)), Tail(remaining))

\* The exploded list of _smart_batch_optimize (clones get an empty dims list).
RECURSIVE BatchExplode(_)
BatchExplode(cargos) ==
    IF cargos = <<>> THEN <<>>
    ELSE LET c == Head(cargos)
         IN  (IF c.pieces > 1
              THEN [i \in 1..c.pieces |->
                      CargoRequest(c.id \o <<"-", ToString(i)>>, c.destination,
                                   c.weight \div c.pieces, c.volume \div c.pieces,
                                   1, 0, c.shc, "")]
              ELSE <<c>>) \o BatchExplode(Tail(cargos))

\* The keys of the groups dict, in insertion order.
RECURSIVE DestOrder(_, _)
DestOrder(cargos, seen) ==
    IF cargos = <<>> THEN seen
    ELSE DestOrder(Tail(cargos),
                   IF \E k \in 1..Len(seen) : seen[k] = Head(cargos).destination
                   THEN seen ELSE Append(seen, Head(cargos).destination))

\* The (destination, items) iterations of one _smart_batch_optimize call.
Batches(cargos, target_uld_type) ==
    LET exploded == BatchExplode(cargos)
        dests    == DestOrder(exploded, <<>>)
    IN  [k \in 1..Len(dests) |->
            [ uld_type |-> target_uld_type, dest |-> dests[k],
              items |-> SelectSeq(exploded, LAMBDA c : c.destination = dests[k]) ]]

\* Phase 2 of plan_flight: the iterations ahead, lower deck first.
Phase2Batches(std_cargos, heap) ==
    LET isLower(c) == \/ (0 < max_height(heap, c) /\ max_height(heap, c) <= Cm(163))
                      \/ max_height(heap, c) = 0
        lower_vols == SelectSeq(std_cargos, isLower)
        main_vols  == SelectSeq(std_cargos, LAMBDA c : \A k \in 1..Len(lower_vols) : lower_vols[k] # c)
    IN  (IF lower_vols # <<>> THEN Batches(lower_vols, "M_LOWER") ELSE <<>>)
        \o (IF main_vols # <<>> THEN Batches(main_vols, "M") ELSE <<>>)

\* The test under which the top-up loop adds item to an existing ULD.
TopUpFits(u, item, dest, target_uld_type) ==
    LET spec == SPECS[target_uld_type]
    IN  /\ u.status = "OPEN"
        /\ u.destination = dest
        /\ u.uld_type = target_uld_type
        /\ MixOk(u, item)
        /\ u.total_weight + item.weight <= spec.max_gross - spec.tare
        /\ u.total_volume + item.volume <= PackingLoss(spec.max_vol)

\* for item in items: first fit into the engine's OPEN ULDs;
\* st = [packed_ulds, remaining_items].
RECURSIVE TopUp(_, _, _, _)
TopUp(st, items, dest, target_uld_type) ==
    IF items = <<>> THEN st
    ELSE
    LET item == Head(items)
        fit  == {k \in 1..Len(st.packed_ulds) :
                    TopUpFits(st.packed_ulds[k], item, dest, target_uld_type)}
        next == IF fit = {}
                THEN [st EXCEPT !.remaining_items = Append(@, item)]
                ELSE LET k == CHOOSE m \in fit : \A n \in fit : m <= n
                     IN  [st EXCEPT !.packed_ulds[k] = AddItem(@, item)]
    IN  TopUp(next, Tail(items), dest, target_uld_type)

(***************************************************************************)
(* planner/math_solver.py                                                  *)
(***************************************************************************)
\* max_bins = int((sum(c.volume for c in cargos) / cap_v) * 1.2) + 2
max_bins(cargos, cap_v) ==
    ((SumOf([k \in 1..Len(cargos) |-> cargos[k].volume]) * 12) \div (cap_v * 10)) + 2

\* The indices of the cargos that assignment f puts in bin j (x[i,j] = 1).
BinItems(f, j) == {i \in DOMAIN f : f[i] = j}

RECURSIVE SumField(_, _, _)
SumField(cargos, idx, weightField) ==
    IF idx = {} THEN 0
    ELSE LET i == CHOOSE k \in idx : TRUE
         IN  (IF weightField THEN cargos[i].weight ELSE cargos[i].volume)
             + SumField(cargos, idx \ {i}, weightField)

\* The assignments x that satisfy the constraints of one optimize call:
\* every cargo in exactly one bin, each bin within cap_w and cap_v.
FeasibleAssignments(cargos, uld_type) ==
    LET spec  == SPECS[uld_type]
        cap_w == spec.max_gross - spec.tare
        cap_v == PackingLoss(spec.max_vol)
        bins  == 1..max_bins(cargos, cap_v)
    IN  {f \in [1..Len(cargos) -> bins] :
            \A j \in bins : /\ SumField(cargos, BinItems(f, j), TRUE) <= cap_w
                            /\ SumField(cargos, BinItems(f, j), FALSE) <= cap_v}

UsedBins(f) == {f[i] : i \in DOMAIN f}

\* The assignments that minimise the number of bins used.
OptimalAssignments(cargos, uld_type) ==
    LET feas == FeasibleAssignments(cargos, uld_type)
    IN  {f \in feas : \A g \in feas : Cardinality(UsedBins(f)) <= Cardinality(UsedBins(g))}

\* The PackedULD list built from solution f: bins in index order, each with
\* its cargos in list order.
RECURSIVE ULDsOfSolution(_, _, _, _)
ULDsOfSolution(f, cargos, uld_type, j) ==
    IF j > max_bins(cargos, PackingLoss(SPECS[uld_type].max_vol)) THEN <<>>
    ELSE
    LET items == SelectSeq([i \in 1..Len(cargos) |-> i], LAMBDA i : f[i] = j)
        RECURSIVE Fill(_, _)
        Fill(u, rest) == IF rest = <<>> THEN u ELSE Fill(AddItem(u, cargos[Head(rest)]), Tail(rest))
    IN  (IF items = <<>> THEN <<>>
         ELSE <<Fill(PackedULD(ULDId("TEMP", "", 0), uld_type, SPECS[uld_type].contour,
                               cargos[items[1]].destination), items)>>)
        \o ULDsOfSolution(f, cargos, uld_type, j + 1)

\* MathematicalPlanner.optimize: the lists it may return.  The solver object
\* lives as long as the engine and every call adds its variables and
\* constraints to it; slv.feasible says whether the constraints added so far
\* can all be met.  Any optimal solution may come back.
optimize(slv, cargos, uld_type) ==
    IF cargos = <<>> THEN {<<>>}
    ELSE IF slv.feasible /\ FeasibleAssignments(cargos, uld_type) # {}
    THEN {ULDsOfSolution(f, cargos, uld_type, 1) : f \in OptimalAssignments(cargos, uld_type)}
    ELSE {<<>>}

\* The solver after an optimize call on cargos.
SolverAfter(slv, cargos, uld_type) ==
    IF cargos = <<>> THEN slv
    ELSE [feasible |-> slv.feasible /\ FeasibleAssignments(cargos, uld_type) # {}]

\* for u in res: u.id = f"OPT-{len(self.packed_ulds)+1:03d}"; self.packed_ulds.append(u)
RECURSIVE AppendOptimized(_, _)
AppendOptimized(ulds, res) ==
    IF res = <<>> THEN ulds
    ELSE AppendOptimized(Append(ulds, [Head(res) EXCEPT !.id = ULDId("OPT", "", Len(ulds) + 1)]),
                         Tail(res))

(***************************************************************************)
(* planner/core_engine.py: allocation and report                           *)
(***************************************************************************)
\* The sort key of _allocate_to_aircraft (False sorts before True).
PriorityKey(u) ==
    << IF u.uld_type \notin {"G", "R"} THEN 1 ELSE 0,
       IF u.uld_type \notin {"M_LOWER", "A_LOWER"} THEN 1 ELSE 0,
       IF u.uld_type # "K" THEN 1 ELSE 0 >>

\* The candidate positions of a ULD type, sorted by arm (stable).
Candidates(uld_type) ==
    LET pool == IF uld_type \in {"G", "R"}
                THEN SelectSeq(MAIN_POSITIONS, LAMBDA p : p.type = "Center")
                ELSE IF uld_type \in {"M", "A"}
                THEN SelectSeq(MAIN_POSITIONS, LAMBDA p : p.type \in {"Left", "Right"})
                ELSE IF uld_type \in {"M_LOWER", "A_LOWER"}
                THEN SelectSeq(LOWER_POSITIONS, LAMBDA p : p.type = "Center")
                ELSE IF uld_type = "K"
                THEN SelectSeq(LOWER_POSITIONS, LAMBDA p : p.type \in {"Left", "Right"})
                ELSE <<>>
        perm == SortPerm([k \in 1..Len(pool) |-> <<pool[k].arm>>])
    IN  [k \in 1..Len(pool) |-> pool[perm[k]]]

\* The candidate lists by ULD type (the map is static).
CandidateTable == [t \in ULDTypes |-> Candidates(t)]

\* The interlock test with the forward look-up only: positions that an
\* occupied position lists as a conflict are not excluded.
NoConflict_ForwardOnly(info, occupied) ==
    /\ info.id \notin occupied
    /\ \A c \in SeqToSet(info.conflicts) : c \notin occupied

\* The interlock test of the candidate loop: info is free, none of its
\* conflicts is occupied, and no occupied position lists it as a conflict.
NoConflict(info, occupied) ==
    /\ info.id \notin occupied
    /\ \A c \in SeqToSet(info.conflicts) : c \notin occupied
    /\ \A occ_pid \in occupied : info.id \notin SeqToSet(PosInfo(occ_pid).conflicts)

\* Whether the candidate loop assigns uld to position info.
CandidatePasses(uld, info, occupied) ==
    /\ NoConflict(info, occupied)
    /\ check_linear_load(uld, info.arm)

\* The loop over the sorted ULDs: st = [packed_ulds, occupied, disabled]; order
\* holds the indices of packed_ulds in sorted order; disabled holds the ids
\* that initialize_maps deleted from MAIN_POSITIONS and LOWER_POSITIONS.
RECURSIVE AllocLoop(_, _)
AllocLoop(st, order) ==
    IF order = <<>> THEN st
    ELSE
    LET k   == Head(order)
        uld == st.packed_ulds[k]
    IN  IF uld.assigned_position # "None" THEN AllocLoop(st, Tail(order))
        ELSE
        LET candidates == IF uld.uld_type \in ULDTypes
                          THEN SelectSeq(CandidateTable[uld.uld_type],
                                         LAMBDA p : p.id \notin st.disabled)
                          ELSE <<>>
            pass       == {n \in 1..Len(candidates) : CandidatePasses(uld, candidates[n], st.occupied)}
        IN  IF pass = {}
            THEN AllocLoop([st EXCEPT !.packed_ulds[k].assigned_position = "UNASSIGNED"], Tail(order))
            ELSE LET info == candidates[CHOOSE n \in pass : \A m \in pass : n <= m]
                 IN  AllocLoop([st EXCEPT !.packed_ulds[k].assigned_position = info.id,
                                          !.packed_ulds[k].assigned_arm = info.arm,
                                          !.occupied = @ \cup {info.id}],
                               Tail(order))

\* _allocate_to_aircraft on a map from which the ids in disabled were deleted.
AllocateWith(ulds, disabled) ==
    LET order == SortPerm([k \in 1..Len(ulds) |-> PriorityKey(ulds[k])])
    IN  AllocLoop([packed_ulds |-> ulds, occupied |-> {}, disabled |-> disabled],
                  order).packed_ulds

\* CorePlanningEngine._generate_report
_generate_report(ulds, rejected, action_req) ==
    LET shown == SelectSeq(ulds, LAMBDA u : u.assigned_position # "UNASSIGNED")
    IN  [ summary |-> [ total_ulds   |-> Len(ulds),
                        total_weight |-> SumOf([k \in 1..Len(ulds) |-> gross_weight(ulds[k])]),
                        warnings     |-> check_zone_limits(ulds) ],
          rejected |-> rejected,
          action_required |-> [k \in 1..Len(action_req) |->
                                  [ group_id |-> action_req[k].group_id,
                                    leftover_count |-> Len(action_req[k].remaining_cargos) ]],
          visualization |-> [k \in 1..Len(shown) |->
                                [ pos |-> shown[k].assigned_position, uld |-> shown[k].id,
                                  type |-> shown[k].uld_type, weight |-> gross_weight(shown[k]),
                                  arm |-> shown[k].assigned_arm, dest |-> shown[k].destination,
                                  contents |-> [n \in 1..Len(shown[k].items) |-> shown[k].items[n].id] ]] ]

(***************************************************************************)
(* Inputs.  Booking requests as the callers build them (app.py, main.py):  *)
(* dims holds the request's own list of boxes.                             *)
(***************************************************************************)
Box(l, w, h) == [l |-> l, w |-> w, h |-> Cm(h)]

Requests ==
    << \* V1, V2: loose cargo, the forced-group pair of main.py
       CargoRequest(<<"V", "1">>, "LAX", Kg(2000), M3(5), 1, <<>>, <<>>, ""),
       CargoRequest(<<"V", "2">>, "LAX", Kg(3000), M3(8), 1, <<>>, <<>>, ""),
       \* V3: loose cargo to another destination
       CargoRequest(<<"V", "3">>, "TPE", Kg(1000), M3(3), 1, <<>>, <<>>, ""),
       \* X1: coded cargo near the M pallet's max_gross, 20 m3
       CargoRequest(<<"X", "1">>, "LAX", Kg(6800), M3(20), 1, <<>>, <<"PER">>, ""),
       \* H1: heavier than a G pallet's max_gross; H2: the G weight tier
       CargoRequest(<<"H", "1">>, "LAX", Kg(14000), M3(10), 1, <<>>, <<>>, ""),
       CargoRequest(<<"H", "2">>, "LAX", Kg(13000), M3(10), 1, <<>>, <<>>, ""),
       \* S1, S2: special handling codes that exclude each other; S3 carries both
       \* AVI and ICE itself
       CargoRequest(<<"S", "1">>, "LAX", Kg(500), M3(2), 1, <<>>, <<"AVI">>, ""),
       CargoRequest(<<"S", "2">>, "LAX", Kg(500), M3(2), 1, <<>>, <<"RRY">>, ""),
       CargoRequest(<<"S", "3">>, "LAX", Kg(800), M3(3), 1, <<>>, <<"AVI", "ICE">>, ""),
       \* D1: two light boxes; D2: two dense boxes (floor pressure above the limit)
       CargoRequest(<<"D", "1">>, "LAX", Kg(600), M3(2), 2, <<Box(100, 100, 100)>>, <<>>, ""),
       CargoRequest(<<"D", "2">>, "LAX", Kg(4000), M3(3), 2, <<Box(100, 100, 155)>>, <<>>, ""),
       \* L1: loose cargo within the M weight tier
       CargoRequest(<<"L", "1">>, "LAX", Kg(5000), M3(2), 1, <<>>, <<>>, "") >>

ForcedGroup(group_id, cargo_ids, target_uld_type, max_uld_count) ==
    [ group_id |-> group_id, cargo_ids |-> cargo_ids,
      target_uld_type |-> target_uld_type, max_uld_count |-> max_uld_count ]

Groups ==
    << ForcedGroup("VIP", << <<"V", "1">>, <<"V", "2">>, <<"D", "1">> >>, "M", 1),
       ForcedGroup("MIX", << <<"V", "1">>, <<"V", "3">>, <<"L", "1">> >>, "M", 1) >>

\* Bounds of the exploration.
MaxCargos == 2
MaxCalls == 2
MaxTotalCargos == 3

\* The request lists a call may pass: 1..MaxCargos distinct requests, any order.
RequestLists ==
    UNION { {s \in [1..n -> 1..Len(Requests)] : \A a, b \in 1..n : a # b => s[a] # s[b]}
            : n \in 1..MaxCargos }

\* forced_groups: None, or one of the groups.
GroupLists == {<<>>} \cup {<<Groups[g]>> : g \in 1..Len(Groups)}

(***************************************************************************)
(* State: one CorePlanningEngine and the plan_flight call in progress.     *)
(***************************************************************************)
VARIABLES
    packed_ulds,       \* self.packed_ulds
    rejected_cargos,   \* self.rejected_cargos
    action_required,   \* self.action_required
    math_solver,       \* self.math_solver
    pc,                \* where plan_flight stands: idle, phase0..phase3, report
    calls,             \* plan_flight calls started on this engine
    submitted,         \* requests passed so far
    heap,              \* the dims lists of the current call's requests
    exploded_cargos,   \* plan_flight's exploded_cargos
    forced_groups,     \* plan_flight's forced_groups argument
    remaining,         \* plan_flight's remaining
    batches,           \* the _smart_batch_optimize iterations still ahead
    report,            \* what the last plan_flight returned
    DISABLED_POSITIONS, \* AircraftMap.DISABLED_POSITIONS (class attribute)
    _flights,          \* FlightRepository._flights: the engines not in use
    flight,            \* the flight id of the engine in use ("" = built directly)
    history            \* the confirm_booking calls so far: arguments, returned report

vars == << packed_ulds, rejected_cargos, action_required, math_solver, pc, calls,
           submitted, heap, exploded_cargos, forced_groups, remaining, batches, report,
           DISABLED_POSITIONS, _flights, flight, history >>

\* CorePlanningEngine._allocate_to_aircraft: packed_ulds after the call, on the
\* map as the last initialize_maps left it.
_allocate_to_aircraft(ulds) == AllocateWith(ulds, DISABLED_POSITIONS)

NoReport == [ summary |-> [total_ulds |-> 0, total_weight |-> 0, warnings |-> <<>>],
              rejected |-> <<>>, action_required |-> <<>>, visualization |-> <<>> ]

\* CorePlanningEngine.__init__
Init ==
    /\ packed_ulds = <<>>
    /\ rejected_cargos = <<>>
    /\ action_required = <<>>
    /\ math_solver = [feasible |-> TRUE]
    /\ pc = "idle"
    /\ calls = 0
    /\ submitted = 0
    /\ heap = <<>>
    /\ exploded_cargos = <<>>
    /\ forced_groups = <<>>
    /\ remaining = <<>>
    /\ batches = <<>>
    /\ report = NoReport
    /\ DISABLED_POSITIONS = {}
    /\ _flights = <<>>
    /\ flight = ""
    /\ history = <<>>

\* A call as the caller made it; report is filled in when the call returns.
CallRecord(flight_id, cargos, groups, restrictions) ==
    [ flight |-> flight_id, cargos |-> cargos, forced_groups |-> groups,
      restrictions |-> restrictions, report |-> NoReport ]

\* plan_flight(new_cargos, forced_groups): entry and _explode_cargos.
PlanFlight(sel, groups) ==
    /\ pc = "idle"
    /\ calls < MaxCalls
    /\ submitted + Len(sel) <= MaxTotalCargos
    /\ LET new_cargos == [i \in 1..Len(sel) |-> [Requests[sel[i]] EXCEPT !.dims = i]]
       IN  /\ heap' = [i \in 1..Len(sel) |-> Requests[sel[i]].dims]
           /\ exploded_cargos' = _explode_cargos(new_cargos)
    /\ forced_groups' = groups
    /\ remaining' = <<>>
    /\ batches' = <<>>
    /\ calls' = calls + 1
    /\ submitted' = submitted + Len(sel)
    /\ pc' = "phase0"
    /\ UNCHANGED <<packed_ulds, rejected_cargos, action_required, math_solver, report,
                   DISABLED_POSITIONS, _flights, flight, history>>

\* Phase 0: forced groups, then remaining = the cargos no group took.
ForcedGroupsPhase ==
    /\ pc = "phase0"
    /\ LET st == Phase0Groups([ packed_ulds |-> packed_ulds,
                                action_required |-> action_required,
                                processed_ids |-> {} ],
                              forced_groups, exploded_cargos)
       IN  /\ packed_ulds' = st.packed_ulds
           /\ action_required' = st.action_required
           /\ remaining' = SelectSeq(exploded_cargos, LAMBDA c : c.id \notin st.processed_ids)
    /\ pc' = "phase1"
    /\ UNCHANGED <<rejected_cargos, math_solver, calls, submitted, heap, exploded_cargos,
                   forced_groups, batches, report,
                   DISABLED_POSITIONS, _flights, flight, history>>

\* Phase 1: the admission loop; then the split of std_cargos by deck.
PreProcessPhase ==
    /\ pc = "phase1"
    /\ LET st == PreProcess([ packed_ulds |-> packed_ulds,
                              rejected_cargos |-> rejected_cargos,
                              std_cargos |-> <<>>, heap |-> heap ],
                            remaining)
       IN  /\ packed_ulds' = st.packed_ulds
           /\ rejected_cargos' = st.rejected_cargos
           /\ heap' = st.heap
           /\ batches' = Phase2Batches(st.std_cargos, st.heap)
    /\ remaining' = <<>>
    /\ pc' = "phase2"
    /\ UNCHANGED <<action_required, math_solver, calls, submitted, exploded_cargos,
                   forced_groups, report,
                   DISABLED_POSITIONS, _flights, flight, history>>

\* Phase 2: one iteration of `for dest, items in groups.items()`.
OptimizeBatch ==
    /\ pc = "phase2"
    /\ batches # <<>>
    /\ LET b  == Head(batches)
           st == TopUp([packed_ulds |-> packed_ulds, remaining_items |-> <<>>],
                       b.items, b.dest, b.uld_type)
       IN  /\ \E res \in optimize(math_solver, st.remaining_items, b.uld_type) :
                  packed_ulds' = AppendOptimized(st.packed_ulds, res)
           /\ math_solver' = SolverAfter(math_solver, st.remaining_items, b.uld_type)
    /\ batches' = Tail(batches)
    /\ UNCHANGED <<rejected_cargos, action_required, pc, calls, submitted, heap,
                   exploded_cargos, forced_groups, remaining, report,
                   DISABLED_POSITIONS, _flights, flight, history>>

\* Phase 3: _allocate_to_aircraft.
AllocatePhase ==
    /\ pc = "phase2"
    /\ batches = <<>>
    /\ packed_ulds' = _allocate_to_aircraft(packed_ulds)
    /\ pc' = "report"
    /\ UNCHANGED <<rejected_cargos, action_required, math_solver, calls, submitted, heap,
                   exploded_cargos, forced_groups, remaining, batches, report,
                   DISABLED_POSITIONS, _flights, flight, history>>

\* return self._generate_report()
ReportPhase ==
    /\ pc = "report"
    /\ report' = _generate_report(packed_ulds, rejected_cargos, action_required)
    /\ history' = IF history = <<>> THEN history
                  ELSE [history EXCEPT ![Len(history)].report = report']
    /\ pc' = "idle"
    /\ UNCHANGED <<packed_ulds, rejected_cargos, action_required, math_solver, calls,
                   submitted, heap, exploded_cargos, forced_groups, remaining, batches,
                   DISABLED_POSITIONS, _flights, flight>>

Next ==
    \/ \E sel \in RequestLists, groups \in GroupLists : PlanFlight(sel, groups)
    \/ ForcedGroupsPhase
    \/ PreProcessPhase
    \/ OptimizeBatch
    \/ AllocatePhase
    \/ ReportPhase

Spec == Init /\ [][Next]_vars

(***************************************************************************)
(* Admission scenarios: one engine, plan_flight without forced groups, on   *)
(* requests that exercise the Gatekeeper, the type recommendation, the     *)
(* input checks and the allocator's failure path.                          *)
(***************************************************************************)
AdmissionRequests ==
    << \* N1: loose standard cargo
       CargoRequest(<<"N", "1">>, "LAX", Kg(500), M3(2), 1, <<>>, <<>>, ""),
       \* H1: heavier than a G pallet's max_gross, no dims
       CargoRequest(<<"H", "1">>, "LAX", Kg(14000), M3(10), 1, <<>>, <<>>, ""),
       \* H3: as heavy, one piece 150 cm high
       CargoRequest(<<"H", "3">>, "LAX", Kg(14000), M3(10), 1, <<Box(300, 200, 150)>>, <<>>, ""),
       \* B1: piece 400 x 250 x 180 cm; B2: the same piece with a handling code
       CargoRequest(<<"B", "1">>, "LAX", Kg(1000), M3(18), 1, <<Box(400, 250, 180)>>, <<>>, ""),
       CargoRequest(<<"B", "2">>, "LAX", Kg(1000), M3(18), 1, <<Box(400, 250, 180)>>, <<"PER">>, ""),
       \* B3: piece 400 x 320 x 310 cm, larger than every door
       CargoRequest(<<"B", "3">>, "LAX", Kg(1000), M3(40), 1, <<Box(400, 320, 310)>>, <<>>, ""),
       \* Z1: weight 0
       CargoRequest(<<"Z", "1">>, "LAX", 0, M3(2), 1, <<>>, <<>>, ""),
       \* U1: too heavy per inch for every centre position
       CargoRequest(<<"U", "1">>, "LAX", Kg(40000), M3(10), 1, <<>>, <<>>, ""),
       \* P1: two boxes of 50 x 50 x 50 cm, 100 kg each
       CargoRequest(<<"P", "1">>, "LAX", Kg(200), M3(1), 2, <<Box(50, 50, 50)>>, <<>>, "") >>

AdmissionLists ==
    UNION { {s \in [1..n -> 1..Len(AdmissionRequests)] : \A a, b \in 1..n : a # b => s[a] # s[b]}
            : n \in 1..MaxCargos }

\* plan_flight(new_cargos) on admission requests.
PlanAdmission(sel) ==
    /\ pc = "idle"
    /\ calls < MaxCalls
    /\ submitted + Len(sel) <= MaxTotalCargos
    /\ LET new_cargos == [i \in 1..Len(sel) |-> [AdmissionRequests[sel[i]] EXCEPT !.dims = i]]
       IN  /\ heap' = [i \in 1..Len(sel) |-> AdmissionRequests[sel[i]].dims]
           /\ exploded_cargos' = _explode_cargos(new_cargos)
    /\ forced_groups' = <<>>
    /\ remaining' = <<>>
    /\ batches' = <<>>
    /\ calls' = calls + 1
    /\ submitted' = submitted + Len(sel)
    /\ pc' = "phase0"
    /\ UNCHANGED <<packed_ulds, rejected_cargos, action_required, math_solver, report,
                   DISABLED_POSITIONS, _flights, flight, history>>

NextAdmission ==
    \/ \E sel \in AdmissionLists : PlanAdmission(sel)
    \/ ForcedGroupsPhase
    \/ PreProcessPhase
    \/ OptimizeBatch
    \/ AllocatePhase
    \/ ReportPhase

SpecAdmission == Init /\ [][NextAdmission]_vars

(***************************************************************************)
(* Booking scenarios: SalesIntegrationLayer.confirm_booking on the engines *)
(* FlightRepository keeps per flight id.                                   *)
(***************************************************************************)
FlightIds == {"A", "B"}

\* The restrictions argument: none, a main-deck position, a lower-deck position.
RestrictionLists == {<<>>, <<"CC">>, <<"11P">>}

\* The cargos argument: N1 or H1 of AdmissionRequests.
BookingLists == {<<1>>, <<2>>}

MaxBookings == 3

\* CorePlanningEngine(route): the fields plan_flight works on.
CorePlanningEngine ==
    [ packed_ulds |-> <<>>, rejected_cargos |-> <<>>, action_required |-> <<>>,
      math_solver |-> [feasible |-> TRUE], calls |-> 0 ]

\* FlightRepository.get_engine: the engine stored under flight_id, built on
\* first use.
get_engine(flight_id) ==
    IF flight_id = flight
    THEN [ packed_ulds |-> packed_ulds, rejected_cargos |-> rejected_cargos,
           action_required |-> action_required, math_solver |-> math_solver,
           calls |-> calls ]
    ELSE IF \E k \in 1..Len(_flights) : _flights[k].id = flight_id
         THEN _flights[CHOOSE k \in 1..Len(_flights) : _flights[k].id = flight_id].engine
         ELSE CorePlanningEngine

\* confirm_booking(flight_id, route, cargos, restrictions) up to the entry of
\* plan_flight; the phases of plan_flight follow as separate steps.
ConfirmBooking(flight_id, sel, restrictions) ==
    /\ pc = "idle"
    /\ Len(history) < MaxBookings
    /\ LET engine == get_engine(flight_id)
           new_cargos == [i \in 1..Len(sel) |-> [AdmissionRequests[sel[i]] EXCEPT !.dims = i]]
       IN  /\ _flights' =
                 IF flight_id = flight THEN _flights
                 ELSE SelectSeq(_flights, LAMBDA e : e.id # flight_id)
                      \o (IF flight = "" THEN <<>>
                          ELSE << [id |-> flight, engine |-> get_engine(flight)] >>)
           /\ flight' = flight_id
           /\ packed_ulds' = engine.packed_ulds
           /\ rejected_cargos' = engine.rejected_cargos
           /\ action_required' = engine.action_required
           /\ math_solver' = engine.math_solver
           /\ calls' = engine.calls + 1
           /\ DISABLED_POSITIONS' = DISABLED_POSITIONS \cup SeqToSet(restrictions)
           /\ heap' = [i \in 1..Len(sel) |-> AdmissionRequests[sel[i]].dims]
           /\ exploded_cargos' = _explode_cargos(new_cargos)
           /\ history' = Append(history, CallRecord(flight_id, new_cargos, <<>>, restrictions))
    /\ forced_groups' = <<>>
    /\ remaining' = <<>>
    /\ batches' = <<>>
    /\ submitted' = submitted + Len(sel)
    /\ pc' = "phase0"
    /\ UNCHANGED report

NextFlights ==
    \/ \E flight_id \in FlightIds, sel \in BookingLists, restrictions \in RestrictionLists :
           ConfirmBooking(flight_id, sel, restrictions)
    \/ ForcedGroupsPhase
    \/ PreProcessPhase
    \/ OptimizeBatch
    \/ AllocatePhase
    \/ ReportPhase

SpecFlights == Init /\ [][NextFlights]_vars

(***************************************************************************)
(* Forced-group scenarios: requests whose ids share a prefix.              *)
(***************************************************************************)
GroupRequests ==
    << \* V1 and the two-piece D1, both listed in the group VIP
       Requests[1],
       Requests[10],
       \* V10: loose cargo that no group lists
       CargoRequest(<<"V", "1", "0">>, "LAX", Kg(1000), M3(3), 1, <<>>, <<>>, "") >>

GroupRequestLists ==
    UNION { {s \in [1..n -> 1..Len(GroupRequests)] : \A a, b \in 1..n : a # b => s[a] # s[b]}
            : n \in 1..MaxCargos }

\* plan_flight(new_cargos, forced_groups) on the group requests.
PlanGroups(sel, groups) ==
    /\ pc = "idle"
    /\ calls < MaxCalls
    /\ submitted + Len(sel) <= MaxTotalCargos
    /\ LET new_cargos == [i \in 1..Len(sel) |-> [GroupRequests[sel[i]] EXCEPT !.dims = i]]
       IN  /\ heap' = [i \in 1..Len(sel) |-> GroupRequests[sel[i]].dims]
           /\ exploded_cargos' = _explode_cargos(new_cargos)
    /\ forced_groups' = groups
    /\ remaining' = <<>>
    /\ batches' = <<>>
    /\ calls' = calls + 1
    /\ submitted' = submitted + Len(sel)
    /\ pc' = "phase0"
    /\ UNCHANGED <<packed_ulds, rejected_cargos, action_required, math_solver, report,
                   DISABLED_POSITIONS, _flights, flight, history>>

NextGroups ==
    \/ \E sel \in GroupRequestLists, groups \in GroupLists : PlanGroups(sel, groups)
    \/ ForcedGroupsPhase
    \/ PreProcessPhase
    \/ OptimizeBatch
    \/ AllocatePhase
    \/ ReportPhase

SpecGroups == Init /\ [][NextGroups]_vars

(***************************************************************************)
(* Properties                                                              *)
(***************************************************************************)
\* A plan_flight call has returned.
Planned == pc = "idle" /\ calls >= 1

\* The first plan_flight call on the engine has returned.
PlannedFresh == pc = "idle" /\ calls = 1

ULDIndex == 1..Len(packed_ulds)

Holds(k) == packed_ulds[k].assigned_position \notin {"None", "UNASSIGNED"}

ConflictSet(pid) == SeqToSet(PosInfo(pid).conflicts)

\* C1: after plan_flight on a fresh engine, two ULDs with assigned positions
\* p and q never share a position, and neither position is in the other's
\* conflict list, whichever direction the map lists the conflict in; with a
\* ULD at EC, no ULD is at EL, ER, FL, FR or FC.
C1_NoInterlockConflict ==
    PlannedFresh =>
        /\ \A i, j \in ULDIndex :
              (i # j /\ Holds(i) /\ Holds(j)) =>
                  LET p == packed_ulds[i].assigned_position
                      q == packed_ulds[j].assigned_position
                  IN  p # q /\ q \notin ConflictSet(p) /\ p \notin ConflictSet(q)
        /\ (\E i \in ULDIndex : packed_ulds[i].assigned_position = "EC") =>
              \A j \in ULDIndex :
                  packed_ulds[j].assigned_position \notin {"EL", "ER", "FL", "FR", "FC"}

\* C1 witness: a fresh pass that put one ULD at CC and another at EC (DC,
\* which only CC lists as a conflict, was passed over).
C1_Witness ==
    /\ PlannedFresh
    /\ \E i, j \in ULDIndex : /\ packed_ulds[i].assigned_position = "CC"
                              /\ packed_ulds[j].assigned_position = "EC"

\* C2: after plan_flight every PackedULD satisfies
\* total_weight + tare + shoring_weight <= max_gross of its type.
C2_GrossWithinMaxGross ==
    Planned =>
        \A k \in ULDIndex :
            LET u == packed_ulds[k]
            IN  u.total_weight + SPECS[u.uld_type].tare + u.shoring_weight
                    <= SPECS[u.uld_type].max_gross

\* The pieces held as items of PackedULDs.
PiecesPacked ==
    SumOf([k \in ULDIndex |->
              SumOf([n \in 1..Len(packed_ulds[k].items) |-> packed_ulds[k].items[n].pieces])])

\* The pieces left over in action_required entries.
PiecesLeftOver ==
    SumOf([k \in 1..Len(action_required) |->
              SumOf([n \in 1..Len(action_required[k].remaining_cargos) |->
                        action_required[k].remaining_cargos[n].pieces])])

\* The input pieces after explosion.
PiecesIn == SumOf([k \in 1..Len(exploded_cargos) |-> exploded_cargos[k].pieces])

\* C3: cargo conservation: after plan_flight on a fresh engine the pieces in
\* PackedULDs, the rejected pieces and the action_required leftovers add up
\* to the input pieces after explosion.
C3_CargoConservation ==
    PlannedFresh => PiecesPacked + Len(rejected_cargos) + PiecesLeftOver = PiecesIn

\* C4: after plan_flight on a fresh engine every ULD assigned to a position
\* with arm a satisfies gross_weight / len <= linear_limit(a).
C4_LinearLoadWithinLimit ==
    PlannedFresh =>
        \A k \in ULDIndex :
            Holds(k) =>
                LET u == packed_ulds[k]
                IN  (u.total_weight + SPECS[u.uld_type].tare + u.shoring_weight) * 10
                        <= get_linear_limit(u.assigned_arm) * SPECS[u.uld_type].len

\* C4 witness: a G pallet too heavy per inch for the forward positions A1,
\* A2 and B (38.5 kg/in) ends at CC.
C4_Witness ==
    /\ PlannedFresh
    /\ \E k \in ULDIndex :
          /\ packed_ulds[k].uld_type = "G"
          /\ packed_ulds[k].assigned_position = "CC"
          /\ gross_weight(packed_ulds[k]) * 10 > 385 * SPECS["G"].len

\* C5: after plan_flight no ULD's shc_codes holds two codes one of which
\* lists the other in CONFLICTS.
C5_SHCCompatibleInULD ==
    Planned =>
        \A k \in ULDIndex :
            \A s1, s2 \in packed_ulds[k].shc_codes :
                s2 \notin ConflictsOf(s1) /\ s1 \notin ConflictsOf(s2)

\* C6: after plan_flight all items of every PackedULD have the ULD's
\* destination.
C6_OneDestinationPerULD ==
    Planned =>
        \A k \in ULDIndex :
            \A n \in 1..Len(packed_ulds[k].items) :
                packed_ulds[k].items[n].destination = packed_ulds[k].destination

\* C7: after plan_flight every PackedULD satisfies
\* total_volume <= max_vol x 0.85.
C7_VolumeWithinLossFactor ==
    Planned =>
        \A k \in ULDIndex :
            packed_ulds[k].total_volume * 100 <= SPECS[packed_ulds[k].uld_type].max_vol * 85

\* C8: a CLOSED ULD accepts no further items: over any step of any
\* plan_flight call, a ULD that is CLOSED keeps its items, total_weight,
\* total_volume and shc_codes and stays CLOSED.
C8_ClosedIsFinal ==
    [][ \A k \in ULDIndex :
            packed_ulds[k].status = "CLOSED" =>
                /\ k <= Len(packed_ulds')
                /\ packed_ulds'[k].status = "CLOSED"
                /\ packed_ulds'[k].items = packed_ulds[k].items
                /\ packed_ulds'[k].total_weight = packed_ulds[k].total_weight
                /\ packed_ulds'[k].total_volume = packed_ulds[k].total_volume
                /\ packed_ulds'[k].shc_codes = packed_ulds[k].shc_codes ]_vars

\* C8 witness: the second call has packed; a ULD of the first call is CLOSED
\* and the second call opened a new ULD of the same type and destination
\* whose load the closed one had room for.
C8_Witness ==
    /\ calls = 2
    /\ pc = "report"
    /\ \E i, j \in ULDIndex :
          /\ i <= report.summary.total_ulds
          /\ j > report.summary.total_ulds
          /\ packed_ulds[i].status = "CLOSED"
          /\ packed_ulds[j].uld_type = packed_ulds[i].uld_type
          /\ packed_ulds[j].destination = packed_ulds[i].destination
          /\ gross_weight(packed_ulds[i]) + packed_ulds[j].total_weight
                 <= SPECS[packed_ulds[i].uld_type].max_gross

\* The gross weight assigned to the positions whose arm lies in zone z.
ZoneLoad(z) ==
    SumOf([k \in ULDIndex |->
              IF /\ Holds(k)
                 /\ ZONE_LIMITS[z].start <= packed_ulds[k].assigned_arm
                 /\ packed_ulds[k].assigned_arm <= ZONE_LIMITS[z].end
              THEN packed_ulds[k].total_weight + SPECS[packed_ulds[k].uld_type].tare
                       + packed_ulds[k].shoring_weight
              ELSE 0])

GroupOf(gid) == Groups[CHOOSE g \in 1..Len(Groups) : Groups[g].group_id = gid]

\* An id that begins with one of the ids the group lists (main.py: the ids
\* name the cargos whose id starts with them; piece clones are <id>-<i>).
ListedIn(id, group) ==
    \E k \in 1..Len(group.cargo_ids) :
        /\ Len(id) >= Len(group.cargo_ids[k])
        /\ \A n \in 1..Len(group.cargo_ids[k]) : id[n] = group.cargo_ids[k][n]

\* The ULDs that the step appends to packed_ulds.
NewULDs == SubSeq(packed_ulds', Len(packed_ulds) + 1, Len(packed_ulds'))

AddedItems ==
    UNION { { packed_ulds'[k].items[n] :
                n \in ((IF k <= Len(packed_ulds) THEN Len(packed_ulds[k].items) ELSE 0) + 1)
                          ..Len(packed_ulds'[k].items) }
            : k \in 1..Len(packed_ulds') }

\* The entries that the step appends to action_required and rejected_cargos.
NewActionRequired == SubSeq(action_required', Len(action_required) + 1, Len(action_required'))

NewRejected == SubSeq(rejected_cargos', Len(rejected_cargos) + 1, Len(rejected_cargos'))

\* The ids left over by the forced groups of the call in progress (report
\* still is what the previous call returned).
LeftoverIds ==
    UNION { { action_required[k].remaining_cargos[n].id :
                n \in 1..Len(action_required[k].remaining_cargos) }
            : k \in (Len(report.action_required) + 1)..Len(action_required) }

\* C11: forced-group overflow.  In Phase 0 every cargo of a group is either an
\* item of one of the group's ULDs or listed, once, in the single new
\* action_required entry of the group, and a listed cargo fits in none of the
\* group's ULDs; in Phases 1-2 of that call a listed cargo is added to no ULD
\* and to rejected under no id; the report gives the entry's leftover_count as
\* the number of listed cargos.
C11_OverflowIsActionRequired ==
    [][ /\ pc = "phase0" =>
             \A gi \in 1..Len(forced_groups) :
                LET g        == forced_groups[gi]
                    spec     == SPECS[g.target_uld_type]
                    gcIds    == { exploded_cargos[e].id : e \in
                                    { e \in 1..Len(exploded_cargos) : InGroup(exploded_cargos[e], g) } }
                    gULDs    == { k \in 1..Len(NewULDs) : NewULDs[k].id.group = g.group_id }
                    placed   == UNION { { NewULDs[k].items[n].id : n \in 1..Len(NewULDs[k].items) }
                                        : k \in gULDs }
                    entries  == { k \in 1..Len(NewActionRequired) :
                                    NewActionRequired[k].group_id = g.group_id }
                    listed   == UNION { { NewActionRequired[k].remaining_cargos[n] :
                                            n \in 1..Len(NewActionRequired[k].remaining_cargos) }
                                        : k \in entries }
                    listedIds == { c.id : c \in listed }
                IN  /\ Cardinality(entries) <= 1
                    /\ (entries = {}) <=> (listedIds = {})
                    /\ placed \cup listedIds = gcIds
                    /\ placed \cap listedIds = {}
                    /\ \A k \in entries :
                          Len(NewActionRequired[k].remaining_cargos) = Cardinality(listedIds)
                    /\ \A c \in listed :
                          /\ \A k \in gULDs :
                                \/ NewULDs[k].total_weight + c.weight > spec.max_gross - spec.tare
                                \/ NewULDs[k].total_volume + c.volume > PackingLoss(spec.max_vol)
                                \/ ~MixOk(NewULDs[k], c)
                          /\ Cardinality(gULDs) < g.max_uld_count =>
                                (c.weight > spec.max_gross - spec.tare
                                   \/ c.volume > PackingLoss(spec.max_vol))
                    /\ \A r \in 1..Len(NewRejected) : NewRejected[r].id \notin gcIds
        /\ pc \in {"phase1", "phase2"} =>
             /\ \A c \in AddedItems : \A id \in LeftoverIds : ~StartsWith(c.id, id)
             /\ \A r \in 1..Len(NewRejected) :
                   \A id \in LeftoverIds : ~StartsWith(NewRejected[r].id, id)
        /\ pc = "report" =>
             /\ Len(report'.action_required) = Len(action_required)
             /\ \A k \in 1..Len(action_required) :
                   /\ report'.action_required[k].group_id = action_required[k].group_id
                   /\ report'.action_required[k].leftover_count
                         = Len(action_required[k].remaining_cargos) ]_vars

\* C11 witness: a returned plan whose forced group packed one cargo and left
\* another over, reported with leftover_count 1.
C11_Witness ==
    /\ PlannedFresh
    /\ Len(action_required) = 1
    /\ Len(action_required[1].remaining_cargos) = 1
    /\ report.action_required[1].leftover_count = 1
    /\ \E k \in ULDIndex : /\ packed_ulds[k].id.kind = "FRC"
                           /\ packed_ulds[k].id.group = action_required[1].group_id

\* The cargos (pieces) of the latest call, and the ids in rejected.
ExplodedIndex == 1..Len(exploded_cargos)

RejectedIds == { rejected_cargos[r].id : r \in 1..Len(rejected_cargos) }

\* The cargo is rejected under its own id or a derived one (<id>-rem).
IsRejected(c) == \E r \in 1..Len(rejected_cargos) : StartsWith(rejected_cargos[r].id, c.id)

\* The cargo, or a chunk of it, is an item of some ULD.
IsPacked(c) ==
    \E k \in ULDIndex : \E n \in 1..Len(packed_ulds[k].items) :
        StartsWith(packed_ulds[k].items[n].id, c.id)

\* C12: every piece heavier than the G pallet's max_gross is not rejected and
\* sits alone in a G ULD that is CLOSED and noted "FLOATING LOAD".
C12_FloatingLoadAccepted ==
    Planned =>
        \A e \in ExplodedIndex :
            exploded_cargos[e].weight > SPECS["G"].max_gross =>
                /\ ~IsRejected(exploded_cargos[e])
                /\ \E k \in ULDIndex :
                      /\ packed_ulds[k].uld_type = "G"
                      /\ packed_ulds[k].status = "CLOSED"
                      /\ packed_ulds[k].shoring_note = "FLOATING LOAD"
                      /\ Len(packed_ulds[k].items) = 1
                      /\ packed_ulds[k].items[1].id = exploded_cargos[e].id

\* The request, as the caller passed it, that a piece of the latest call came
\* from.
AllRequests == Requests \o AdmissionRequests

RequestOf(c) ==
    AllRequests[CHOOSE i \in 1..Len(AllRequests) : StartsWith(c.id, AllRequests[i].id)]

\* The number of edges of the request's largest-volume piece longer than cm.
EdgesOver(c, cm) ==
    LET ds    == RequestOf(c).dims
        piece == ds[ArgMax([k \in 1..Len(ds) |-> ds[k].l * ds[k].w * ds[k].h])]
    IN  Cardinality({ i \in 1..3 : <<Cm(piece.l), Cm(piece.w), piece.h>>[i] > Cm(cm) })

HasDoorRejection(c) ==
    \E r \in 1..Len(rejected_cargos) :
        rejected_cargos[r].id = c.id /\ rejected_cargos[r].reason = "exceed all doors"

C14_LooseCargoOnTypeM ==
    PlannedFresh =>
        /\ \A k \in ULDIndex : packed_ulds[k].id.kind = "OPT" => packed_ulds[k].uld_type = "M"
        /\ { exploded_cargos[e].id : e \in ExplodedIndex } = {<<"N", "1">>}
              => /\ report.summary.total_ulds = 1
                 /\ packed_ulds[1].uld_type = "M"
                 /\ report.rejected = <<>>

\* C15: a Phase 2 cargo for which the MIP finds no solution is handed to the
\* heuristic packer: after plan_flight on a fresh engine every loose standard
\* cargo of the call (no dims, no handling code, no forced type, within the M
\* weight tier, in no forced group) is an item of a ULD or is in rejected.
C15_ResidueIsPackedOrRejected ==
    PlannedFresh =>
        \A e \in ExplodedIndex :
            LET c == exploded_cargos[e]
            IN  ( /\ RequestOf(c).dims = <<>>
                  /\ c.shc = <<>>
                  /\ c.assigned_uld_type = ""
                  /\ c.weight <= SPECS["M"].max_gross
                  /\ \A g \in 1..Len(forced_groups) : ~InGroup(c, forced_groups[g]) )
                => (IsPacked(c) \/ IsRejected(c))


\* The position ids passed as restrictions to the bookings of the flight in hand.
OwnDisabled ==
    UNION { SeqToSet(history[k].restrictions) :
                k \in {j \in 1..Len(history) : history[j].flight = flight} }

\* C16: disabled positions are per-flight: the allocation of a flight's ULDs
\* leaves out the positions passed as restrictions to that flight's bookings
\* and no others, so a position disabled for flight A is still a candidate
\* for flight B.
C16_DisabledPerFlight ==
    [][ (pc = "phase2" /\ pc' = "report" /\ flight # "")
            => packed_ulds' = AllocateWith(packed_ulds, OwnDisabled) ]_vars

\* The bookings that have returned.
Returned == IF pc = "idle" THEN 1..Len(history) ELSE 1..(Len(history) - 1)

RejectedIdsOf(rep) == { rep.rejected[r].id : r \in 1..Len(rep.rejected) }

\* C17: two plan_flight calls on identical inputs (same flight, cargo list,
\* forced groups and restrictions) return reports with the same total_ulds,
\* the same rejection set and the same warnings.
C17_SameInputsSameReport ==
    \A i, j \in Returned :
        ( /\ history[i].flight = history[j].flight
          /\ history[i].cargos = history[j].cargos
          /\ history[i].forced_groups = history[j].forced_groups
          /\ history[i].restrictions = history[j].restrictions )
        => /\ history[i].report.summary.total_ulds = history[j].report.summary.total_ulds
           /\ RejectedIdsOf(history[i].report) = RejectedIdsOf(history[j].report)
           /\ history[i].report.summary.warnings = history[j].report.summary.warnings


\* C18: a ULD that the allocator left without a position is not rejected: it
\* is counted in total_ulds and the report's visualization has a row for it
\* whose pos is "UNASSIGNED".
C18_UnassignedIsReported ==
    Planned =>
        /\ report.summary.total_ulds = Len(packed_ulds)
        /\ \A k \in ULDIndex :
              packed_ulds[k].assigned_position = "UNASSIGNED" =>
                  /\ \A n \in 1..Len(packed_ulds[k].items) : ~IsRejected(packed_ulds[k].items[n])
                  /\ \E v \in 1..Len(report.visualization) :
                        /\ report.visualization[v].uld = packed_ulds[k].id
                        /\ report.visualization[v].pos = "UNASSIGNED"

\* An input that the validation is to turn away.
IsInvalid(c) ==
    \/ c.weight <= 0
    \/ c.volume <= 0
    \/ RequestOf(c).pieces < 1
    \/ c.destination = ""
    \/ \E d \in 1..Len(RequestOf(c).dims) :
          LET dim == RequestOf(c).dims[d] IN dim.l <= 0 \/ dim.w <= 0 \/ dim.h <= 0

\* C19: after plan_flight on a fresh engine, a cargo with weight <= 0,
\* volume <= 0, pieces < 1, a dim with a non-positive edge or an empty
\* destination is in rejected, with a reason.
C19_InvalidInputRejected ==
    PlannedFresh =>
        \A e \in ExplodedIndex :
            IsInvalid(exploded_cargos[e]) =>
                \E r \in 1..Len(rejected_cargos) :
                    /\ rejected_cargos[r].id = exploded_cargos[e].id
                    /\ rejected_cargos[r].reason # ""

\* The ULDs that the allocation step in hand has to place.
Unplaced == {k \in ULDIndex : packed_ulds[k].assigned_position = "None"}

\* ULD j comes before ULD k in the priority order (input order within a class).
Precedes(j, k) ==
    \/ TupleLess(PriorityKey(packed_ulds[j]), PriorityKey(packed_ulds[k]))
    \/ PriorityKey(packed_ulds[j]) = PriorityKey(packed_ulds[k]) /\ j < k

\* The positions that hold a ULD when the step reaches ULD k.
OccupiedAt(k) ==
    {packed_ulds[j].assigned_position : j \in {i \in ULDIndex : Holds(i)}}
    \cup {packed_ulds'[j].assigned_position :
              j \in {i \in Unplaced : /\ Precedes(i, k)
                                      /\ packed_ulds'[i].assigned_position # "UNASSIGNED"}}

\* The candidates of ULD k's class that pass at its turn.
PassingAt(k) ==
    LET uld   == packed_ulds[k]
        class == IF uld.uld_type \in ULDTypes
                 THEN {p \in SeqToSet(CandidateTable[uld.uld_type]) : p.id \notin DISABLED_POSITIONS}
                 ELSE {}
    IN  {p \in class : /\ p.id \notin OccupiedAt(k)
                       /\ \A q \in OccupiedAt(k) :
                             /\ q \notin SeqToSet(p.conflicts)
                             /\ p.id \notin ConflictSet(q)
                       /\ check_linear_load(uld, p.arm)}

\* C20: greedy front-to-back allocation: taking the ULDs in priority order,
\* each ULD receives the smallest-arm position of its candidate class that is
\* unoccupied, in no two-way conflict with an occupied position and passes the
\* linear-load check at its turn, and is "UNASSIGNED" only if there is none.
C20_GreedyFrontToBack ==
    [][ (pc = "phase2" /\ pc' = "report") =>
            \A k \in Unplaced :
                IF PassingAt(k) = {}
                THEN packed_ulds'[k].assigned_position = "UNASSIGNED"
                ELSE \E p \in PassingAt(k) :
                        /\ packed_ulds'[k].assigned_position = p.id
                        /\ packed_ulds'[k].assigned_arm = p.arm
                        /\ \A q \in PassingAt(k) : p.arm <= q.arm ]_vars

\* C20 on the first plan_flight call of an engine only.
C20_GreedyOnFreshEngine ==
    [][ (pc = "phase2" /\ pc' = "report" /\ calls = 1) =>
            \A k \in Unplaced :
                IF PassingAt(k) = {}
                THEN packed_ulds'[k].assigned_position = "UNASSIGNED"
                ELSE \E p \in PassingAt(k) :
                        /\ packed_ulds'[k].assigned_position = p.id
                        /\ packed_ulds'[k].assigned_arm = p.arm
                        /\ \A q \in PassingAt(k) : p.arm <= q.arm ]_vars


\* The Phase 1 verdicts on piece c taken with the dims of its request.
OwnHeap(c) == << RequestOf(c).dims >>

OwnPiece(c) == [c EXCEPT !.dims = 1]

\* Piece c of a request with box dims is non-special: it passes the doors,
\* carries no code and no assigned type, needs no shoring and gets one of the
\* standard types.
NonSpecialBoxed(c) ==
    /\ RequestOf(c).dims # <<>>
    /\ c.shc = <<>>
    /\ c.assigned_uld_type = ""
    /\ validate_door_entry(OwnHeap(c), OwnPiece(c)).pass
    /\ recommend_type(OwnHeap(c), OwnPiece(c)).type \in {"M", "M_LOWER", "K"}
    /\ ~recommend_type(OwnHeap(c), OwnPiece(c)).floating
    /\ ~calculate_shoring_needs(OwnHeap(c), OwnPiece(c),
                                recommend_type(OwnHeap(c), OwnPiece(c)).type, 3200).needed

\* The ULDs that hold pieces of the request of c.
ULDsOfRequest(c) ==
    {k \in ULDIndex : \E n \in 1..Len(packed_ulds[k].items) :
        StartsWith(packed_ulds[k].items[n].id, RequestOf(c).id \o <<"-">>)}

\* ceil(n / min(max_pcs_per_uld, floor((max_gross - tare) / piece_weight)))
SaturatedULDCount(c) ==
    LET uld_type == recommend_type(OwnHeap(c), OwnPiece(c)).type
        dim      == RequestOf(c).dims[1]
        per_uld  == Min2(calc_max_pieces_per_uld(dim.l, dim.w, dim.h, uld_type),
                         (SPECS[uld_type].max_gross - SPECS[uld_type].tare) \div c.weight)
        n        == RequestOf(c).pieces
    IN  (n + per_uld - 1) \div per_uld

\* C21: after plan_flight on a fresh engine, a non-special request with box
\* dims and n > 1 pieces, no piece of which was rejected, occupies
\* ceil(n / min(max_pcs_per_uld, floor((max_gross - tare) / piece_weight)))
\* ULDs.
C21_PackerSaturation ==
    PlannedFresh =>
        \A e \in ExplodedIndex :
            LET c == exploded_cargos[e]
            IN  ( /\ RequestOf(c).pieces > 1
                  /\ NonSpecialBoxed(c)
                  /\ rejected_cargos = <<>> )
                => Cardinality(ULDsOfRequest(c)) = SaturatedULDCount(c)


\* C22: over any sequence of confirm_booking calls on one flight's engine,
\* no two ULDs of the engine hold the same position, and no two hold
\* positions of which one lists the other as a conflict.
C22_NoClashAcrossCalls ==
    \A i, j \in ULDIndex :
        (i # j /\ Holds(i) /\ Holds(j)) =>
            /\ packed_ulds[i].assigned_position # packed_ulds[j].assigned_position
            /\ packed_ulds[j].assigned_position \notin ConflictSet(packed_ulds[i].assigned_position)


\* C23: the number of ULDs that optimize returns for a batch is the number it
\* returns for that batch on a new solver, whatever batches the engine's
\* solver has solved before, a batch without a solution included.
C23_BatchIndependence ==
    [][ (pc = "phase2" /\ batches # <<>>) =>
            LET b  == Head(batches)
                st == TopUp([packed_ulds |-> packed_ulds, remaining_items |-> <<>>],
                            b.items, b.dest, b.uld_type)
            IN  \E res \in optimize([feasible |-> TRUE], st.remaining_items, b.uld_type) :
                    Len(packed_ulds') = Len(st.packed_ulds) + Len(res) ]_vars


\* C24: Phase 1 checks every piece clone of a request against the original
\* piece height: over the whole of Phase 1 the height of a request's box
\* grows by no more than the shoring height of one piece.
C24_ClonesIndependent ==
    [][ pc = "phase1" =>
            \A e \in 1..Len(remaining) :
                LET c == remaining[e]
                IN  DimsOf(heap, c.dims) # <<>> =>
                        heap'[c.dims][1].h <=
                            heap[c.dims][1].h
                            + calculate_shoring_needs(heap, c, recommend_type(heap, c).type,
                                                      3200).height ]_vars


\* id is listed in the group's cargo_ids or is "<listed id>-<i>".
ExactMember(id, group) ==
    \E k \in 1..Len(group.cargo_ids) :
        \/ id = group.cargo_ids[k]
        \/ /\ Len(id) = Len(group.cargo_ids[k]) + 2
           /\ StartsWith(id, group.cargo_ids[k] \o <<"-">>)

\* C25: Phase 0 captures only the cargos that a forced group lists, or piece
\* clones of a listed request: any other cargo, also one whose id begins with
\* a listed id, is in no ULD that Phase 0 fills and is left to Phases 1-2.
C25_ExactGroupMembership ==
    [][ pc = "phase0" =>
            \A e \in ExplodedIndex :
                LET c == exploded_cargos[e]
                IN  (\A g \in 1..Len(forced_groups) : ~ExactMember(c.id, forced_groups[g]))
                    => /\ \E r \in 1..Len(remaining') : remaining'[r] = c
                       /\ \A k \in 1..Len(NewULDs) : \A n \in 1..Len(NewULDs[k].items) :
                              NewULDs[k].items[n].id # c.id ]_vars

=============================================================================
